---------------------------- MODULE Spec2Model ----------------------------
(***************************************************************************)
(* Driver Safety Monitor (src/Desktop/asdfasdf/server2.py): the POST /eye  *)
(* ingestion handler, the statistics aggregator, POST /reset_stats and the *)
(* Socket.IO event handlers, as a state machine.                           *)
(*                                                                         *)
(* Scheduling.  The server runs under eventlet (server2.py:5-6, 22-26):    *)
(* green threads are switched only at blocking I/O.  A handler's body,     *)
(* from its first read of the globals to its last emit, holds no blocking  *)
(* call (emit encodes the packet and appends it to each recipient's        *)
(* in-memory send queue), so each handler is one atomic action and the     *)
(* runs of the server are the interleavings of whole handlers.             *)
(*                                                                         *)
(* Numbers.  Durations are whole seconds, ear_value is in thousandths      *)
(* (0.10 is 100).  The wall clock `now` is 0 at import and advances by one *)
(* with every handled event; datetime.now() and time.time() both read it.  *)
(***************************************************************************)
EXTENDS Integers, Sequences, FiniteSets, TLC

VARIABLES
    latest_eye,       \* the global TelemetrySnapshot              (server2.py:31-40)
    eye_statistics,   \* the global SessionStatistics              (server2.py:42-47)
    sessions,         \* per sid: "idle" (not yet connected), "connected", "closed"
    inbox,            \* per sid: the messages emitted to it, in emission order
    now,              \* the wall clock: 0 at import, one tick per handled event
    last,             \* the event handled last: its input and its HTTP status
    ingested          \* history entries built by the ingests answered 200
                      \* since the last reset (or process start), in order

vars == <<latest_eye, eye_statistics, sessions, inbox, now, last, ingested>>

---------------------------------------------------------------------------
(* Bounds of the model. *)

\* The main specification handles at most MaxTime events, at ticks 1..MaxTime.
MaxTime == 3

\* The long-run specification handles 2 * HISTORY_CAP + FifoSlack events, and
\* its dashboards connect, leave and post in the last FifoTail of them.
FifoSlack == 2
FifoTail == 3

---------------------------------------------------------------------------
(* Program constants. *)

\* alert_history[-50:]
HISTORY_CAP == 50

\* random.uniform(0.10, 0.24), in thousandths
EAR_CLOSED_LO == 100
EAR_CLOSED_HI == 240

\* random.uniform(0.250, 0.350), in thousandths
EAR_OPEN_LO == 250
EAR_OPEN_HI == 350

---------------------------------------------------------------------------
(* JSON values as Python sees them after request.get_json(): a key that is  *)
(* absent, null (None), a string or a number.                              *)

Absent == [t |-> "absent", s |-> "", n |-> 0]
Null   == [t |-> "null",   s |-> "", n |-> 0]
Str(x) == [t |-> "str",    s |-> x,  n |-> 0]
Num(x) == [t |-> "num",    s |-> "", n |-> x]

\* dict.get(key, default): the default only when the key is absent.
Get(data, key, default) ==
    IF data[key].t = "absent" THEN default ELSE data[key]

\* Python truthiness of a JSON value: None, "" and 0 are falsy.
Truthy(v) ==
    CASE v.t = "null" -> FALSE
      [] v.t = "str"  -> v.s # ""
      [] v.t = "num"  -> v.n # 0
      [] OTHER        -> FALSE

\* str.lower() on the status strings of the model.
Lower(s) ==
    CASE s = "CLOSED" -> "closed"
      [] s = "Closed" -> "closed"
      [] s = "OPEN"   -> "open"
      [] s = "Open"   -> "open"
      [] OTHER        -> s

\* float(v): the number, or a ValueError (a non-numeric string) or
\* TypeError (None) that the handler catches.
FloatOk(v) == v.t = "num"

\* a > b in Python 3: defined between numbers, a TypeError between a string
\* or None and a number.
GtRaises(a, b) == a.t # "num" \/ b.t # "num"
Gt(a, b) == a.n > b.n

\* seq[-k:]
LastK(seq, k) ==
    IF Len(seq) <= k THEN seq ELSE SubSeq(seq, Len(seq) - k + 1, Len(seq))

---------------------------------------------------------------------------
(* The globals at import time. *)

InitEye ==
    [status        |-> "open",
     duration      |-> 0,
     alert_level   |-> Null,
     alert_type    |-> Null,
     alert_message |-> Null,
     sensitivity   |-> Num(1),
     ear_value     |-> 0,
     timestamp     |-> 0]

NewStatistics(t) ==
    [total_alerts          |-> 0,
     current_session_start |-> t,
     max_closure_time      |-> Num(0),
     alert_history         |-> << >>]

drivers_data ==
    << [id |-> 1, name |-> "John Driver",  status |-> "safe"],
       [id |-> 2, name |-> "Sarah Wilson", status |-> "warning"],
       [id |-> 3, name |-> "Mike Johnson", status |-> "danger"] >>

---------------------------------------------------------------------------
(* POST /eye *)

\* Lines 96-100: float(data.get("duration", 0.0)), 0.0 when it raises.
CoerceDuration(data) ==
    LET v == Get(data, "duration", Num(0))
    IN  IF FloatOk(v) THEN v.n ELSE 0

\* SimulateEar with the open range of the comment at line 109 (2.50-3.50).
SimulateEarCommentRange(status) ==
    CASE status = "closed" -> {EAR_CLOSED_LO, EAR_CLOSED_HI}
      [] status = "open"   -> {10 * EAR_OPEN_LO, 10 * EAR_OPEN_HI}
      [] OTHER             -> {0}

\* Lines 105-113: the values round(random.uniform(lo, hi), 3) can take for
\* the status, as the two ends of the range; 0.0 for any other status.
SimulateEar(status) ==
    CASE status = "closed" -> {EAR_CLOSED_LO, EAR_CLOSED_HI}
      [] status = "open"   -> {EAR_OPEN_LO, EAR_OPEN_HI}
      [] OTHER             -> {0}

\* Lines 116-125: latest_eye.update({...}).
UpdatedEye(data, status, duration, ear_value, t) ==
    [status        |-> status,
     duration      |-> duration,
     alert_level   |-> Get(data, "alert_level", Null),
     alert_type    |-> Get(data, "alert_type", Null),
     alert_message |-> Get(data, "alert_message", Null),
     sensitivity   |-> Get(data, "sensitivity", Num(1)),
     ear_value     |-> ear_value,
     timestamp     |-> t]

\* Line 143: data.get('alert_level') and
\* data['alert_level'] != latest_eye.get('alert_level'), where eye is the
\* global latest_eye as update_statistics finds it.
AlertCounted(data, eye) ==
    LET level == Get(data, "alert_level", Null)
    IN  Truthy(level) /\ level # eye.alert_level

\* StatusIsClosed on the lower-cased status.
StatusIsClosedAnyCase(data) ==
    LET status == Get(data, "status", Null)
    IN  status.t = "str" /\ Lower(status.s) = "closed"

\* Line 146, left operand: data.get('status') == 'closed'.
StatusIsClosed(data) == Get(data, "status", Null) = Str("closed")

\* Line 146: the comparison raises TypeError when it is evaluated on a
\* duration that is not a number.
ClosureRaises(data, stats) ==
    /\ StatusIsClosed(data)
    /\ GtRaises(Get(data, "duration", Num(0)), stats.max_closure_time)

\* NewMaxClosure without the comparison of line 146.
NewMaxClosureLatest(data, stats) ==
    IF StatusIsClosed(data) THEN data["duration"] ELSE stats.max_closure_time

\* Lines 146-147.
NewMaxClosure(data, stats) ==
    IF StatusIsClosed(data)
       /\ Gt(Get(data, "duration", Num(0)), stats.max_closure_time)
    THEN data["duration"]
    ELSE stats.max_closure_time

\* Lines 149-156.
HistoryEntry(data, ear_value, t) ==
    [timestamp   |-> t,
     status      |-> Get(data, "status", Null),
     duration    |-> Get(data, "duration", Num(0)),
     ear_value   |-> ear_value,
     alert_level |-> Get(data, "alert_level", Null),
     alert_type  |-> Get(data, "alert_type", Null)]

\* AppendHistory without line 159.
AppendHistoryUncapped(history, entry) == Append(history, entry)

\* AppendHistory with [:50] for [-50:].
AppendHistoryKeepOldest(history, entry) ==
    SubSeq(Append(history, entry), 1,
           IF Len(history) + 1 <= HISTORY_CAP THEN Len(history) + 1 ELSE HISTORY_CAP)

\* Lines 158-159: append, then keep the last 50.
AppendHistory(history, entry) == LastK(Append(history, entry), HISTORY_CAP)

\* Lines 141-159: the statistics update_statistics leaves when it returns.
UpdateStatistics(data, ear_value, eye, stats, t) ==
    [total_alerts          |-> IF AlertCounted(data, eye)
                               THEN stats.total_alerts + 1
                               ELSE stats.total_alerts,
     current_session_start |-> stats.current_session_start,
     max_closure_time      |-> NewMaxClosure(data, stats),
     alert_history         |-> AppendHistory(stats.alert_history,
                                             HistoryEntry(data, ear_value, t))]

\* Lines 143-146: the statistics update_statistics leaves when line 146
\* raises: line 144 has run, lines 147-159 have not.
StatisticsAtRaise(data, eye, stats) ==
    [stats EXCEPT !.total_alerts =
        IF AlertCounted(data, eye) THEN @ + 1 ELSE @]

\* socketio.emit(event, payload): to every connected sid, or with room=sid
\* to that sid alone.
Msg(event, payload) == [event |-> event, data |-> payload]

Emit(box, to, msgs) ==
    [c \in DOMAIN box |-> IF c \in to THEN box[c] \o msgs ELSE box[c]]

\* IngestMessages with the emits ahead of the call of line 128: the
\* statistics still lack this ingest's entry.
IngestMessagesBeforeUpdate(eye, stats) ==
    << Msg("eye_status", eye),
       Msg("statistics_update",
           [stats EXCEPT !.alert_history = SubSeq(@, 1, Len(@) - 1)]) >>

\* Lines 131-132.
IngestMessages(eye, stats) ==
    << Msg("eye_status", eye), Msg("statistics_update", stats) >>

---------------------------------------------------------------------------
(* Inputs. *)

\* The Socket.IO session ids that may connect.
Sids == {"s1", "s2"}

Connected == {c \in Sids : sessions[c] = "connected"}

\* A parsed JSON object, by the keys eye_hook reads.
Object(status, duration, level, type, message, sensitivity) ==
    [status        |-> status,
     duration      |-> duration,
     alert_level   |-> level,
     alert_type    |-> type,
     alert_message |-> message,
     sensitivity   |-> sensitivity]

\* An alert level travels with its type, message and sensitivity.
Alert(status, duration, level) ==
    Object(status, duration, Str(level), Str("drowsy"),
           Str("Eyes closed too long"), Num(2))

Plain(status, duration) ==
    Object(status, duration, Absent, Absent, Absent, Absent)

\* A request body: valid is FALSE when request.get_json(force=True) raises;
\* json is the kind of value it parses to, an object with the keys of data or
\* the number n.
Body(data)    == [valid |-> TRUE,  json |-> "object", data |-> data, n |-> 0]
JsonNumber(x) == [valid |-> TRUE,  json |-> "number", data |-> Plain(Absent, Absent), n |-> x]
InvalidJson   == [valid |-> FALSE, json |-> "none",   data |-> Plain(Absent, Absent), n |-> 0]

\* The object has no key at all: {} is falsy in Python.
IsEmpty(data) == \A k \in DOMAIN data : data[k].t = "absent"

Bodies ==
    { InvalidJson,
      JsonNumber(5),
      Body(Plain(Absent, Absent)),
      Body(Alert(Absent, Num(5), "danger")),
      Body(Plain(Null, Num(5))),
      Body(Alert(Str("closed"), Num(5), "danger")),
      Body(Alert(Str("closed"), Num(3), "danger")),
      Body(Alert(Str("closed"), Str("abc"), "warning")),
      Body(Plain(Str("closed"), Num(-1))),
      Body(Plain(Str("open"), Absent)),
      Body(Plain(Str("open"), Num(7))),
      Body(Alert(Str("open"), Str("abc"), "warning")),
      Body(Alert(Str("CLOSED"), Num(5), "warning")),
      Body(Plain(Str("dozing"), Num(3))) }

\* Every value the simulated metric can be drawn as.
EarValues == UNION {SimulateEar(status) : status \in {"closed", "open", "unknown"}}

\* The data of a sos_emergency event, and of a message event.
SosEvents ==
    { [driver_id |-> Num(1), timestamp |-> Str("12:00:00"), location |-> Absent] }

MessageEvents == { Str("hello") }

---------------------------------------------------------------------------
(* Handlers. *)

Handled(op, input, code) == [op |-> op, input |-> input, code |-> code]

\* Line 93, not data: {} and 0 are falsy.
Falsy(body) ==
    \/ body.json = "object" /\ IsEmpty(body.data)
    \/ body.json = "number" /\ body.n = 0

\* Line 93, 'status' not in data: a TypeError when data is a number.
MembershipRaises(body) == body.valid /\ ~Falsy(body) /\ body.json = "number"

\* Lines 88-94: the 400 answers. The body does not parse, or parses to a
\* falsy value, or to an object with no status key.
Rejects(body) ==
    \/ ~body.valid
    \/ Falsy(body)
    \/ body.json = "object" /\ body.data.status.t = "absent"

\* Line 103, before .lower().
StatusOf(data) == Get(data, "status", Str("unknown"))

\* Lines 74-135.  ear_value is what line 107 or 110 draws in this request.
eye_hook(body, ear_value) ==
    LET data == body.data IN
    /\ now' = now + 1
    /\ UNCHANGED sessions
    /\ \/ \* lines 88-94: rejected
          /\ Rejects(body)
          /\ last' = Handled("eye", body, 400)
          /\ UNCHANGED <<latest_eye, eye_statistics, inbox, ingested>>
       \/ \* line 93: the membership test raises
          /\ MembershipRaises(body)
          /\ last' = Handled("eye", body, 500)
          /\ UNCHANGED <<latest_eye, eye_statistics, inbox, ingested>>
       \/ \* line 103: .lower() of a status that is no string raises
          /\ ~Rejects(body) /\ ~MembershipRaises(body)
          /\ StatusOf(data).t # "str"
          /\ last' = Handled("eye", body, 500)
          /\ UNCHANGED <<latest_eye, eye_statistics, inbox, ingested>>
       \/ \* lines 96-128: update_statistics raises at line 146
          /\ ~Rejects(body) /\ ~MembershipRaises(body)
          /\ StatusOf(data).t = "str"
          /\ ear_value \in SimulateEar(Lower(StatusOf(data).s))
          /\ ClosureRaises(data, eye_statistics)
          /\ LET eye == UpdatedEye(data, Lower(StatusOf(data).s),
                                   CoerceDuration(data), ear_value, now)
             IN  /\ latest_eye' = eye
                 /\ eye_statistics' = StatisticsAtRaise(data, eye, eye_statistics)
          /\ last' = Handled("eye", body, 500)
          /\ UNCHANGED <<inbox, ingested>>
       \/ \* lines 96-135: answered 200
          /\ ~Rejects(body) /\ ~MembershipRaises(body)
          /\ StatusOf(data).t = "str"
          /\ ear_value \in SimulateEar(Lower(StatusOf(data).s))
          /\ ~ClosureRaises(data, eye_statistics)
          /\ LET eye == UpdatedEye(data, Lower(StatusOf(data).s),
                                   CoerceDuration(data), ear_value, now)
                 stats == UpdateStatistics(data, ear_value, eye,
                                           eye_statistics, now)
             IN  /\ latest_eye' = eye
                 /\ eye_statistics' = stats
                 /\ inbox' = Emit(inbox, Connected, IngestMessages(eye, stats))
                 /\ ingested' = Append(ingested,
                                       HistoryEntry(data, ear_value, now))
          /\ last' = Handled("eye", body, 200)

\* reset_statistics that puts the snapshot back to its import-time value too.
reset_statistics_and_eye ==
    /\ eye_statistics' = NewStatistics(now)
    /\ latest_eye' = InitEye
    /\ ingested' = << >>
    /\ now' = now + 1
    /\ last' = Handled("reset", Absent, 200)
    /\ UNCHANGED <<sessions, inbox>>

\* reset_statistics followed by a broadcast of the new statistics.
reset_statistics_and_emit ==
    /\ eye_statistics' = NewStatistics(now)
    /\ ingested' = << >>
    /\ inbox' = Emit(inbox, Connected,
                     << Msg("statistics_update", NewStatistics(now)) >>)
    /\ now' = now + 1
    /\ last' = Handled("reset", Absent, 200)
    /\ UNCHANGED <<latest_eye, sessions>>

\* Lines 169-178.
reset_statistics ==
    /\ eye_statistics' = NewStatistics(now)
    /\ ingested' = << >>
    /\ now' = now + 1
    /\ last' = Handled("reset", Absent, 200)
    /\ UNCHANGED <<latest_eye, sessions, inbox>>

\* ConnectMessages with the statistics as they were before the latest entry.
ConnectMessagesStaleStatistics(eye, stats) ==
    << Msg("eye_status", eye),
       Msg("statistics_update",
           [stats EXCEPT !.alert_history =
               IF @ = << >> THEN @ ELSE SubSeq(@, 1, Len(@) - 1)]),
       Msg("drivers_update", drivers_data) >>

\* Lines 191-193.
ConnectMessages(eye, stats) ==
    << Msg("eye_status", eye),
       Msg("statistics_update", stats),
       Msg("drivers_update", drivers_data) >>

\* handle_connect with room=request.sid left out of the emits.
handle_connect_to_all(sid) ==
    /\ sessions[sid] = "idle"
    /\ sessions' = [sessions EXCEPT ![sid] = "connected"]
    /\ inbox' = Emit(inbox, Connected \cup {sid},
                     << Msg("eye_status", latest_eye),
                        Msg("statistics_update", eye_statistics),
                        Msg("drivers_update", drivers_data) >>)
    /\ now' = now + 1
    /\ last' = Handled("connect", sid, 0)
    /\ UNCHANGED <<latest_eye, eye_statistics, ingested>>

\* Lines 188-193.
handle_connect(sid) ==
    /\ sessions[sid] = "idle"
    /\ sessions' = [sessions EXCEPT ![sid] = "connected"]
    /\ inbox' = Emit(inbox, {sid}, ConnectMessages(latest_eye, eye_statistics))
    /\ now' = now + 1
    /\ last' = Handled("connect", sid, 0)
    /\ UNCHANGED <<latest_eye, eye_statistics, ingested>>

\* Lines 195-197.
handle_disconnect(sid) ==
    /\ sessions[sid] = "connected"
    /\ sessions' = [sessions EXCEPT ![sid] = "closed"]
    /\ now' = now + 1
    /\ last' = Handled("disconnect", sid, 0)
    /\ UNCHANGED <<latest_eye, eye_statistics, inbox, ingested>>

\* Lines 202-207: the payload of sos_alert.
SosAlert(data) ==
    [driver_id |-> Get(data, "driver_id", Null),
     timestamp |-> Get(data, "timestamp", Null),
     location  |-> Get(data, "location", Null),
     emergency |-> TRUE]

\* Lines 199-207.
handle_sos(data) ==
    /\ inbox' = Emit(inbox, Connected, << Msg("sos_alert", SosAlert(data)) >>)
    /\ now' = now + 1
    /\ last' = Handled("sos", data, 0)
    /\ UNCHANGED <<latest_eye, eye_statistics, sessions, ingested>>

\* handle_message that emits the event twice.
handle_message_twice(data) ==
    /\ inbox' = Emit(inbox, Connected,
                     << Msg("message", data), Msg("message", data) >>)
    /\ now' = now + 1
    /\ last' = Handled("message", data, 0)
    /\ UNCHANGED <<latest_eye, eye_statistics, sessions, ingested>>

\* Lines 209-212.
handle_message(data) ==
    /\ inbox' = Emit(inbox, Connected, << Msg("message", data) >>)
    /\ now' = now + 1
    /\ last' = Handled("message", data, 0)
    /\ UNCHANGED <<latest_eye, eye_statistics, sessions, ingested>>

---------------------------------------------------------------------------
(* Specifications. *)

Init ==
    /\ latest_eye = InitEye
    /\ eye_statistics = NewStatistics(0)
    /\ sessions = [c \in Sids |-> "idle"]
    /\ inbox = [c \in Sids |-> << >>]
    /\ now = 1
    /\ last = Handled("start", Absent, 0)
    /\ ingested = << >>

\* The handlers of the main specification, while the clock is below MaxTime.
Ingest ==
    now <= MaxTime /\ \E body \in Bodies, ear_value \in EarValues : eye_hook(body, ear_value)
Reset      == now <= MaxTime /\ reset_statistics
Connect    == now <= MaxTime /\ \E sid \in Sids : handle_connect(sid)
Disconnect == now <= MaxTime /\ \E sid \in Sids : handle_disconnect(sid)
Sos        == now <= MaxTime /\ \E data \in SosEvents : handle_sos(data)
Message    == now <= MaxTime /\ \E data \in MessageEvents : handle_message(data)

Next ==
    \/ Ingest
    \/ Reset
    \/ Connect
    \/ Disconnect
    \/ Sos
    \/ Message

Spec == Init /\ [][Next]_vars

\* The long run: a sensor that posts the bodies of FifoCycle in turn, one per
\* tick, each drawing the low end of its metric range; resets at any tick;
\* dashboards connect, leave and post during the last FifoTail ticks.
FifoCycle ==
    << Body(Alert(Str("closed"), Num(5), "danger")),
       Body(Alert(Str("closed"), Num(5), "danger")),
       Body(Plain(Str("open"), Absent)),
       Body(Alert(Str("closed"), Str("abc"), "warning")),
       Body(Plain(Str("dozing"), Num(3))) >>

FifoBody(t) == FifoCycle[(t % Len(FifoCycle)) + 1]

FifoEar(body) ==
    IF body.data.status.t = "str"
    THEN CHOOSE x \in SimulateEar(Lower(body.data.status.s)) :
            \A y \in SimulateEar(Lower(body.data.status.s)) : x <= y
    ELSE 0

FifoHorizon == 2 * HISTORY_CAP + FifoSlack

InFifoRun  == now <= FifoHorizon
InFifoTail == FifoHorizon - FifoTail < now /\ now <= FifoHorizon

IngestFifo     == InFifoRun /\ eye_hook(FifoBody(now), FifoEar(FifoBody(now)))
ResetFifo      == InFifoRun /\ reset_statistics
ConnectFifo    == InFifoTail /\ \E sid \in Sids : handle_connect(sid)
DisconnectFifo == InFifoTail /\ \E sid \in Sids : handle_disconnect(sid)
SosFifo        == InFifoTail /\ \E data \in SosEvents : handle_sos(data)
MessageFifo    == InFifoTail /\ \E data \in MessageEvents : handle_message(data)

NextFifo ==
    \/ IngestFifo
    \/ ResetFifo
    \/ ConnectFifo
    \/ DisconnectFifo
    \/ SosFifo
    \/ MessageFifo

SpecFifo == Init /\ [][NextFifo]_vars

---------------------------------------------------------------------------
(* Claims. *)

IsIngest(e)   == e.op = "eye"
Accepted(e)   == e.op = "eye" /\ e.code = 200
History       == eye_statistics.alert_history
InRange(x, lo, hi) == lo <= x /\ x <= hi

\* C1: an ingest answered 200 raises total_alerts by exactly 1 when its alert
\* level is non-null and differs from the alert level the snapshot held just
\* before the ingest overwrote it, and leaves total_alerts unchanged otherwise.
C1_TotalAlertsCountsTransitions ==
    [][ Accepted(last') =>
          LET level == Get(last'.input.data, "alert_level", Null)
          IN  eye_statistics'.total_alerts =
                eye_statistics.total_alerts
                + (IF level # Null /\ level # latest_eye.alert_level THEN 1 ELSE 0)
      ]_vars

\* C2: the alert history never holds more than 50 entries.
C2_HistoryAtMostCap == Len(History) <= HISTORY_CAP

\* C2 witness: the history is full after more than 50 ingests since the reset,
\* with a dashboard connected.
C2_Witness ==
    /\ Len(History) = HISTORY_CAP
    /\ Len(ingested) > HISTORY_CAP
    /\ Connected # {}

\* C3: the history holds exactly the entries of the last min(n, 50) ingests
\* answered 200 since the last reset, one per ingest, in ingestion order.
C3_HistoryIsFifoWindow ==
    LET n == Len(ingested)
        k == IF n <= HISTORY_CAP THEN n ELSE HISTORY_CAP
    IN  /\ Len(History) = k
        /\ \A i \in 1..k : History[i] = ingested[n - k + i]

\* C3 witness: the 51st ingest since the reset has just been answered, its
\* body the same as the body before it; the 1st entry is gone and the 51st
\* is the last element.
C3_Witness ==
    /\ Accepted(last)
    /\ Len(ingested) = HISTORY_CAP + 1
    /\ History[HISTORY_CAP] = ingested[HISTORY_CAP + 1]
    /\ History[1] = ingested[2]
    /\ \A i \in 1..HISTORY_CAP : History[i] # ingested[1]
    /\ [History[HISTORY_CAP] EXCEPT !.timestamp = 0]
         = [History[HISTORY_CAP - 1] EXCEPT !.timestamp = 0]

\* The metric range the claim gives for a snapshot's status.
EarInStatusRange(eye) ==
    CASE eye.status = "closed" -> InRange(eye.ear_value, EAR_CLOSED_LO, EAR_CLOSED_HI)
      [] eye.status = "open"   -> InRange(eye.ear_value, EAR_OPEN_LO, EAR_OPEN_HI)
      [] OTHER                 -> eye.ear_value = 0

Unparseable(body) == ~body.valid
NoStatusField(body) ==
    body.valid /\ (body.json # "object" \/ body.data.status.t = "absent")

\* C5: an ingest whose body does not parse or has no status field is answered
\* 400 and leaves the snapshot, the statistics and every subscriber's messages
\* as they were.
C5_RejectedIngestChangesNothing ==
    [][ (IsIngest(last') /\ (Unparseable(last'.input) \/ NoStatusField(last'.input)))
        =>
        /\ last'.code = 400
        /\ UNCHANGED <<latest_eye, eye_statistics, inbox>>
      ]_vars

\* C5, its frame half: an ingest whose body does not parse or has no status
\* field leaves the snapshot, the statistics and every subscriber's messages
\* as they were, whatever it is answered.
C5_NoStatusIngestChangesNothing ==
    [][ (IsIngest(last') /\ (Unparseable(last'.input) \/ NoStatusField(last'.input)))
        => UNCHANGED <<latest_eye, eye_statistics, inbox>>
      ]_vars

\* C5 witness: an object with no status is rejected while the statistics hold
\* an entry and a dashboard is connected.
C5_Witness ==
    /\ IsIngest(last)
    /\ last.code = 400
    /\ NoStatusField(last.input)
    /\ last.input.data.duration = Num(5)
    /\ History # << >>
    /\ Connected # {}

\* The duration of the ingest's body is missing or is no number.
DurationMalformed(body) == Get(body.data, "duration", Null).t # "num"

\* What an ingest answered 200 sends to a connected subscriber.
BroadcastOf(eye, stats) ==
    << [event |-> "eye_status", data |-> eye],
       [event |-> "statistics_update", data |-> stats] >>

\* C6: an ingest with a status and a missing or malformed duration is answered
\* 200, records duration 0.0 in the snapshot, appends its history entry and
\* broadcasts to every connected subscriber.
C6_MalformedDurationStillAccepted ==
    [][ ( /\ IsIngest(last')
          /\ last'.input.valid
          /\ last'.input.data.status.t # "absent"
          /\ DurationMalformed(last'.input) )
        =>
        /\ last'.code = 200
        /\ latest_eye'.duration = 0
        /\ Len(eye_statistics'.alert_history) >= 1
        /\ eye_statistics'.alert_history[Len(eye_statistics'.alert_history)].timestamp
             = now
        /\ \A c \in Connected :
              inbox'[c] = inbox[c] \o BroadcastOf(latest_eye', eye_statistics')
      ]_vars

\* The scenario of C7: from the start, {closed, 5.0} then {closed, 3.0}.
C7_Scenario ==
    /\ now = 3
    /\ Len(ingested) = 2
    /\ ingested[1].status = Str("closed") /\ ingested[1].duration = Num(5)
    /\ ingested[2].status = Str("closed") /\ ingested[2].duration = Num(3)

\* C7: max_closure_time never decreases in a step that is no reset, a reset
\* leaves it 0, and the scenario ends with max_closure_time 5.0.
C7_MaxClosureNeverDecreases ==
    /\ [][ IF last'.op = "reset"
           THEN eye_statistics'.max_closure_time = Num(0)
           ELSE eye_statistics'.max_closure_time.n
                  >= eye_statistics.max_closure_time.n ]_vars
    /\ [](C7_Scenario => eye_statistics.max_closure_time = Num(5))

\* C7 witness: the scenario has run.
C7_Witness == C7_Scenario /\ eye_statistics.max_closure_time.n > latest_eye.duration

\* C8: a reset leaves total_alerts 0, max_closure_time 0 and alert_history
\* empty, and leaves every field of the snapshot as it was.
C8_ResetZeroesStatisticsOnly ==
    [][ last'.op = "reset" =>
          /\ eye_statistics'.total_alerts = 0
          /\ eye_statistics'.max_closure_time = Num(0)
          /\ eye_statistics'.alert_history = << >>
          /\ latest_eye' = latest_eye
      ]_vars

\* C8 witness: a reset after an ingest that filled the statistics; the
\* snapshot still shows that ingest.
C8_Witness ==
    /\ last.op = "reset"
    /\ latest_eye.status = "closed"
    /\ latest_eye.duration = 5
    /\ latest_eye.alert_level = Str("danger")
    /\ eye_statistics.max_closure_time = Num(0)
    /\ History = << >>

\* C9: a connect sends the snapshot, the statistics and the roster, in that
\* order, to the new subscriber and nothing to any other; so every subscriber's
\* messages start with its three catch-up messages, ahead of every broadcast,
\* and nothing is sent to a sid that has not connected.
C9_CatchUpToNewSubscriberFirst ==
    /\ [][ last'.op = "connect" =>
             /\ inbox'[last'.input] =
                  inbox[last'.input]
                  \o << [event |-> "eye_status", data |-> latest_eye'],
                        [event |-> "statistics_update", data |-> eye_statistics'],
                        [event |-> "drivers_update", data |-> drivers_data] >>
             /\ \A c \in Sids \ {last'.input} : inbox'[c] = inbox[c]
         ]_vars
    /\ [](\A c \in Sids :
            IF sessions[c] = "idle"
            THEN inbox[c] = << >>
            ELSE /\ Len(inbox[c]) >= 3
                 /\ inbox[c][1].event = "eye_status"
                 /\ inbox[c][2].event = "statistics_update"
                 /\ inbox[c][3].event = "drivers_update"
                 /\ \A i \in 4..Len(inbox[c]) : inbox[c][i].event # "drivers_update")

\* C9 witness: a subscriber connected after an ingest, and the broadcast of a
\* later ingest follows its catch-up messages.
C9_Witness ==
    /\ Accepted(last)
    /\ sessions["s1"] = "connected"
    /\ Len(inbox["s1"]) = 5
    /\ inbox["s1"][4] = [event |-> "eye_status", data |-> latest_eye]
    /\ inbox["s1"][1].data # InitEye

\* C10: the snapshot and the statistics a connecting subscriber is sent are
\* those of the one state the connect ran in, which the connect leaves as
\* it is: both are the values before the connect and the values after it.
C10_CatchUpPairIsOneState ==
    [][ last'.op = "connect" =>
          LET n == Len(inbox[last'.input])
              pair == << inbox'[last'.input][n + 1].data,
                         inbox'[last'.input][n + 2].data >>
          IN  /\ pair = << latest_eye, eye_statistics >>
              /\ pair = << latest_eye', eye_statistics' >>
      ]_vars

\* C10 witness: a connect in a session that has been reset and has ingested
\* since.
C10_Witness ==
    /\ last.op = "connect"
    /\ eye_statistics.current_session_start > 0
    /\ History # << >>
    /\ inbox[last.input][2].data = eye_statistics

\* The last element of a non-empty sequence.
Last(seq) == seq[Len(seq)]

\* C11: an ingest answered 200 sends to every subscriber connected at that
\* moment, and to no one else, an eye_status with the snapshot this ingest
\* wrote and then a statistics_update with the statistics this ingest left,
\* whose last history entry is this ingest's.
C11_BroadcastDescribesThisIngest ==
    [][ Accepted(last') =>
          /\ \A c \in Sids :
                inbox'[c] =
                  IF sessions[c] = "connected"
                  THEN inbox[c] \o BroadcastOf(latest_eye', eye_statistics')
                  ELSE inbox[c]
          /\ latest_eye'.timestamp = now
          /\ Last(eye_statistics'.alert_history).timestamp = now
          /\ Last(eye_statistics'.alert_history) = Last(ingested')
          /\ Last(eye_statistics'.alert_history).ear_value = latest_eye'.ear_value
      ]_vars

\* C11 witness: an ingest has been broadcast to two connected subscribers.
C11_Witness ==
    /\ Accepted(last)
    /\ Connected = Sids
    /\ \A c \in Sids :
          /\ Len(inbox[c]) >= 5
          /\ Last(inbox[c]) = [event |-> "statistics_update", data |-> eye_statistics]
          /\ inbox[c][Len(inbox[c]) - 1] = [event |-> "eye_status", data |-> latest_eye]

\* C12: the snapshot's duration is never negative.
C12_DurationNonNegative == latest_eye.duration >= 0

C14_StatusLoweredBeforeEveryUse ==
    [][ Accepted(last') =>
          LET duration == Get(last'.input.data, "duration", Num(0))
          IN  /\ Last(eye_statistics'.alert_history).status = Str(latest_eye'.status)
              /\ ( /\ latest_eye'.status = "closed"
                   /\ duration.t = "num"
                   /\ duration.n > eye_statistics.max_closure_time.n )
                 => eye_statistics'.max_closure_time = duration
      ]_vars

\* C15: after any POST /eye either the snapshot, the statistics and every
\* inbox are as before, or the snapshot is this request's, this request's
\* history entry is the last of the history and every connected subscriber
\* has received the eye_status and statistics_update pair.
C15_IngestAllOrNothing ==
    [][ IsIngest(last') =>
          \/ UNCHANGED <<latest_eye, eye_statistics, inbox>>
          \/ /\ latest_eye'.timestamp = now
             /\ eye_statistics'.alert_history # << >>
             /\ Last(eye_statistics'.alert_history).timestamp = now
             /\ \A c \in Connected :
                   inbox'[c] = inbox[c] \o BroadcastOf(latest_eye', eye_statistics')
      ]_vars

\* The largest element of a non-empty finite set of integers.
MaxOf(S) == CHOOSE x \in S : \A y \in S : y <= x

\* The numeric durations of the ingests answered 200 since the last reset
\* whose status is exactly "closed".
ClosedDurations ==
    { ingested[i].duration.n :
        i \in { j \in 1..Len(ingested) :
                  /\ ingested[j].status = Str("closed")
                  /\ ingested[j].duration.t = "num" } }

\* C16: max_closure_time is the largest of 0 and the durations of the ingests
\* answered 200 since the last reset (or the start) whose status is exactly
\* "closed".
C16_MaxClosureIsMaxOfClosedDurations ==
    eye_statistics.max_closure_time = Num(MaxOf({0} \cup ClosedDurations))

\* C16 witness: ingests with status "closed" and duration 3, with "CLOSED"
\* and 5 and with "open" and 7 have been answered 200 and max_closure_time
\* is 3.
C16_Witness ==
    /\ eye_statistics.max_closure_time = Num(3)
    /\ \E i, j, k \in 1..Len(ingested) :
          /\ ingested[i].status = Str("closed") /\ ingested[i].duration = Num(3)
          /\ ingested[j].status = Str("CLOSED") /\ ingested[j].duration = Num(5)
          /\ ingested[k].status = Str("open")   /\ ingested[k].duration = Num(7)

\* The statistics_update messages of an inbox and the payload of the last.
StatisticsIndexes(box) ==
    { i \in 1..Len(box) : box[i].event = "statistics_update" }
HasStatistics(box) == StatisticsIndexes(box) # {}
LastStatistics(box) == box[MaxOf(StatisticsIndexes(box))].data

\* C17: a reset appends nothing to any inbox, and the last statistics_update
\* a connected subscriber holds stays the same over every step that is not an
\* ingest answered 200.
C17_ResetSendsNothing ==
    [][ /\ last'.op = "reset" => inbox' = inbox
        /\ ~Accepted(last') =>
              \A c \in Sids :
                 ( /\ sessions[c] = "connected"
                   /\ sessions'[c] = "connected"
                   /\ HasStatistics(inbox[c]) )
                 => LastStatistics(inbox'[c]) = LastStatistics(inbox[c])
      ]_vars

\* C17 witness: after a reset and one more event, a connected subscriber's
\* last statistics_update still shows the history from before the reset while
\* the statistics have none.
C17_Witness ==
    /\ last.op = "sos"
    /\ eye_statistics.alert_history = << >>
    /\ eye_statistics.current_session_start = now - 2
    /\ \E c \in Connected :
          /\ HasStatistics(inbox[c])
          /\ LastStatistics(inbox[c]).alert_history # << >>
          /\ LastStatistics(inbox[c]).current_session_start = 0

\* C18: the first ingest answered 200 after a reset leaves total_alerts at 1
\* when its alert level is non-null and differs from the alert level of the
\* snapshot that survived the reset, and at 0 otherwise.
C18_FirstIngestAfterResetCounted ==
    [][ ( /\ Accepted(last')
          /\ ingested = << >>
          /\ eye_statistics.current_session_start > 0 )
        => LET level == Get(last'.input.data, "alert_level", Null)
           IN  eye_statistics'.total_alerts =
                 IF Truthy(level) /\ level # latest_eye.alert_level THEN 1 ELSE 0
      ]_vars

====
